---- MODULE Spec2Model ----
(***************************************************************************)
(* A model of ezpack, a reflect-based msgpack codec for Go structs.        *)
(*                                                                         *)
(* A struct type is a sequence of field declarations (declaration order);  *)
(* a struct value is the sequence of its field values at the same offsets. *)
(* Byte strings are sequences of 0..255.  A 32-bit unsigned value is kept  *)
(* as a pair <<hi, lo>> of 16-bit halves and a 64-bit unsigned value as    *)
(* four 16-bit limbs, most significant first, so that no arithmetic leaves *)
(* the range of the model checker's integers.                              *)
(***************************************************************************)
EXTENDS Integers, Sequences, FiniteSets, TLC

(***************************************************************************)
(* Bounds of the model.                                                    *)
(***************************************************************************)
\* longest byte-string / string content drawn for a field value
MaxContent == 3
\* most elements drawn for a slice-of-structs field value
MaxElems == 3

(***************************************************************************)
(* Wire constants.                                                         *)
(***************************************************************************)
PackMapID == 223
PackUint64ID == 207
PackBytesID == 198
PackStringID == 219
PackArrayID == 221
maxTagFieldNameLength == 32

(***************************************************************************)
(* 32-bit unsigned values as <<hi, lo>>, 16 bits each.                     *)
(***************************************************************************)
U32(n) == << n \div 65536, n % 65536 >>

U32Gt(x, y) == \/ x[1] > y[1]
               \/ x[1] = y[1] /\ x[2] > y[2]

\* math.MaxInt32 = 0x7FFFFFFF
MaxInt32 == << 32767, 65535 >>

\* int(length): only used once length <= math.MaxInt32 is known
U32ToInt(x) == x[1] * 65536 + x[2]

\* binary.BigEndian.PutUint32
PutUint32(x) == << x[1] \div 256, x[1] % 256, x[2] \div 256, x[2] % 256 >>

\* binary.BigEndian.Uint32
Uint32(b) == << b[1] * 256 + b[2], b[3] * 256 + b[4] >>

\* binary.BigEndian.PutUint64 on four 16-bit limbs
PutUint64(v) == << v[1] \div 256, v[1] % 256, v[2] \div 256, v[2] % 256,
                   v[3] \div 256, v[3] % 256, v[4] \div 256, v[4] % 256 >>

\* binary.BigEndian.Uint64
Uint64(b) == << b[1] * 256 + b[2], b[3] * 256 + b[4],
                b[5] * 256 + b[6], b[7] * 256 + b[8] >>

(***************************************************************************)
(* Errors.  kind names the failing check; a and b carry the two numbers a  *)
(* length error reports; ctx is the chain of "error decoding '<name>'"     *)
(* prefixes added while the error travels up, outermost first.             *)
(***************************************************************************)
Err(kind, a, b) == [kind |-> kind, a |-> a, b |-> b, ctx |-> << >>]

NoErr == Err("nil", U32(0), U32(0))

ErrBufTooShort == Err("BufTooShort", U32(0), U32(0))

ErrOverflow == Err("Overflow", U32(0), U32(0))

Failed(e) == e.kind # "nil"

\* fmt.Errorf("error decoding '%s': %s", expectedName, err)
Wrap(name, e) == [e EXCEPT !.ctx = << name >> \o @]

(***************************************************************************)
(* Byte-wise string comparison (strings.Compare(a, b) == -1).              *)
(***************************************************************************)
RECURSIVE StrLess(_, _)
StrLess(a, b) ==
    IF Len(b) = 0 THEN FALSE
    ELSE IF Len(a) = 0 THEN TRUE
    ELSE IF a[1] # b[1] THEN a[1] < b[1]
    ELSE StrLess(Tail(a), Tail(b))

(***************************************************************************)
(* Struct tags.  A tag is [match, name, maxDigits]: match says whether     *)
(* tagRegex matched, name is capture 1 (the wire name), maxDigits capture  *)
(* 3 (the decimal digits of the maximum length, empty when absent).        *)
(***************************************************************************)
RECURSIVE StripZeros(_)
StripZeros(d) == IF Len(d) > 0 /\ d[1] = 0 THEN StripZeros(Tail(d)) ELSE d

RECURSIVE DigitsGt(_, _)
\* a > b for digit strings of equal length
DigitsGt(a, b) ==
    IF Len(a) = 0 THEN FALSE
    ELSE IF a[1] # b[1] THEN a[1] > b[1]
    ELSE DigitsGt(Tail(a), Tail(b))

RECURSIVE DigitsValue(_, _)
DigitsValue(d, acc) ==
    IF Len(d) = 0 THEN acc ELSE DigitsValue(Tail(d), acc * 10 + d[1])

\* decimal digits of 2^32 - 1 and of 2^31 - 1
MaxUint32Digits == << 4, 2, 9, 4, 9, 6, 7, 2, 9, 5 >>
MaxInt32Digits == << 2, 1, 4, 7, 4, 8, 3, 6, 4, 7 >>

\* strconv.ParseUint(s, 10, 32): [ok, big, val]; big says the value is above
\* math.MaxInt32 (val is then not computed)
ParseUint(d) ==
    LET s == StripZeros(d) IN
    IF Len(s) > 10 \/ (Len(s) = 10 /\ DigitsGt(s, MaxUint32Digits))
    THEN [ok |-> FALSE, big |-> TRUE, val |-> U32(0)]
    ELSE IF Len(s) = 10 /\ DigitsGt(s, MaxInt32Digits)
    THEN [ok |-> TRUE, big |-> TRUE, val |-> U32(0)]
    ELSE [ok |-> TRUE, big |-> FALSE, val |-> U32(DigitsValue(s, 0))]

\* parseStructTag refusing a tag that declares no maximum length
parseStructTagMaxRequired(st) ==
    IF ~st.match
    THEN [err |-> Err("NoTag", U32(0), U32(0)),
          FieldName |-> << >>, MaxLen |-> U32(0)]
    ELSE
    LET p == ParseUint(st.maxDigits)
    IN  IF Len(st.maxDigits) = 0 \/ ~p.ok
        THEN [err |-> Err("BadMaxLen", U32(0), U32(0)),
              FieldName |-> st.name, MaxLen |-> U32(0)]
        ELSE IF p.big
        THEN [err |-> Err("MaxLenTooLong", U32(0), U32(0)),
              FieldName |-> st.name, MaxLen |-> U32(0)]
        ELSE [err |-> NoErr, FieldName |-> st.name, MaxLen |-> p.val]

\* the ezPackStructTag and error parseStructTag returns
parseStructTag(st) ==
    IF ~st.match
    THEN [err |-> Err("NoTag", U32(0), U32(0)),
          FieldName |-> << >>, MaxLen |-> U32(0)]
    ELSE
    LET tooLong == Len(st.name) > maxTagFieldNameLength
        \* err after the name check: set, but the function goes on
        err1 == IF tooLong
                THEN Err("NameTooLong", U32(0), U32(maxTagFieldNameLength))
                ELSE NoErr
        hasMax == Len(st.maxDigits) # 0
        p == ParseUint(st.maxDigits)
    IN  IF hasMax /\ ~p.ok
        THEN [err |-> Err("BadMaxLen", U32(0), U32(0)),
              FieldName |-> st.name, MaxLen |-> U32(0)]
        ELSE IF hasMax /\ p.big
        THEN [err |-> Err("MaxLenTooLong", U32(0), U32(0)),
              FieldName |-> st.name, MaxLen |-> U32(0)]
        ELSE [\* maxLen, err = strconv.ParseUint(...) assigns err again
              err |-> IF hasMax THEN NoErr ELSE err1,
              FieldName |-> st.name,
              MaxLen |-> IF hasMax THEN p.val ELSE U32(0)]

(***************************************************************************)
(* sortStructFields: parse every tag in declaration order, sort by wire    *)
(* name, reject equal neighbours.                                          *)
(***************************************************************************)
\* the parsedStructField of offset i
ParsedField(t, i) ==
    LET p == parseStructTag(t[i].tag)
    IN  [offset |-> i,
         parsedStructTag |-> [FieldName |-> p.FieldName, MaxLen |-> p.MaxLen]]

RECURSIVE InsertSorted(_, _)
InsertSorted(s, f) ==
    IF Len(s) = 0 THEN << f >>
    ELSE IF StrLess(f.parsedStructTag.FieldName, s[1].parsedStructTag.FieldName)
    THEN << f >> \o s
    ELSE << s[1] >> \o InsertSorted(Tail(s), f)

\* sortStructFields without its sort.Slice call
SortByNameUnsorted(s) == s

RECURSIVE SortByName(_)
\* sort.Slice with the strings.Compare(iName, jName) == -1 comparator
SortByName(s) ==
    IF Len(s) = 0 THEN << >>
    ELSE InsertSorted(SortByName(Tail(s)), s[1])

\* sortStructFields without its scan for equal neighbours
sortStructFieldsNoDupScan(t) ==
    LET n == Len(t)
        bad == { i \in 1..n : Failed(parseStructTag(t[i].tag).err) }
    IN  IF bad # {}
        THEN [err |-> parseStructTag(t[CHOOSE i \in bad :
                                           \A j \in bad : i <= j].tag).err,
              fields |-> << >>]
        ELSE [err |-> NoErr,
              fields |-> SortByName([i \in 1..n |-> ParsedField(t, i)])]

sortStructFields(t) ==
    LET n == Len(t)
        bad == { i \in 1..n : Failed(parseStructTag(t[i].tag).err) }
    IN  IF bad # {}
        THEN [err |-> parseStructTag(t[CHOOSE i \in bad :
                                           \A j \in bad : i <= j].tag).err,
              fields |-> << >>]
        ELSE
        LET sorted == SortByName([i \in 1..n |-> ParsedField(t, i)])
            dup == \E i \in 2..n :
                     sorted[i].parsedStructTag.FieldName
                       = sorted[i-1].parsedStructTag.FieldName
        IN  IF dup
            THEN [err |-> Err("DuplicateKey", U32(0), U32(0)), fields |-> << >>]
            ELSE [err |-> NoErr, fields |-> sorted]

(***************************************************************************)
(* Struct types and values.                                                *)
(*                                                                         *)
(* A field declaration is [tag, ft]; ft is [kind, elKind, len, elem]:      *)
(*   kind   "Uint64", "String", "Slice", "Array", "Struct" or "Other"      *)
(*   elKind element kind of a slice or array: "Uint8", "Struct", "Other"   *)
(*   len    the size of an array type                                      *)
(*   elem   the struct type of a nested struct or of a slice's elements    *)
(* Field values: a uint64 is four limbs, a string a byte sequence, an      *)
(* array a byte sequence of the type's size, a slice [nil, s] (nil tells   *)
(* a nil slice from an empty one), a struct the sequence of its fields.    *)
(***************************************************************************)
Tag(name, digits) == [match |-> TRUE, name |-> name, maxDigits |-> digits]

\* a field without an ezpack struct tag (or with one the regex rejects)
NoTag == [match |-> FALSE, name |-> << >>, maxDigits |-> << >>]

Field(tag, ft) == [tag |-> tag, ft |-> ft]

TUint64 == [kind |-> "Uint64", elKind |-> "", len |-> 0, elem |-> << >>]
TString == [kind |-> "String", elKind |-> "", len |-> 0, elem |-> << >>]
TBytes == [kind |-> "Slice", elKind |-> "Uint8", len |-> 0, elem |-> << >>]
TByteArray(n) == [kind |-> "Array", elKind |-> "Uint8", len |-> n, elem |-> << >>]
TStruct(t) == [kind |-> "Struct", elKind |-> "", len |-> 0, elem |-> t]
TStructSlice(t) == [kind |-> "Slice", elKind |-> "Struct", len |-> 0, elem |-> t]
\* kinds the codec does not support: int, []int, [2]int
TOther == [kind |-> "Other", elKind |-> "", len |-> 0, elem |-> << >>]
TOtherSlice == [kind |-> "Slice", elKind |-> "Other", len |-> 0, elem |-> << >>]
TOtherArray(n) == [kind |-> "Array", elKind |-> "Other", len |-> n, elem |-> << >>]

NilSlice == [nil |-> TRUE, s |-> << >>]
MkSlice(s) == [nil |-> FALSE, s |-> s]

RECURSIVE ZeroValue(_)
\* the zero value of a struct type (var res T)
ZeroValue(t) ==
    [i \in 1..Len(t) |->
        LET ft == t[i].ft IN
        CASE ft.kind = "Uint64" -> << 0, 0, 0, 0 >>
          [] ft.kind = "String" -> << >>
          [] ft.kind = "Slice"  -> NilSlice
          [] ft.kind = "Array"  -> [j \in 1..ft.len |-> 0]
          [] ft.kind = "Struct" -> ZeroValue(ft.elem)
          [] OTHER              -> 0]

(***************************************************************************)
(* The encoder.  Pack values are [pv, ...] records:                        *)
(*   PackUint64 [Value], PackBytes [Bytes], PackString [String],           *)
(*   PackValueSlice [Values], PackMap [Elements] of [Key, Value].          *)
(***************************************************************************)
\* math.MaxInt32 as an integer
MaxInt32Int == 2147483647

\* the n <= 0 || n > MaxInt32 || len > MaxInt32 guard of every Encode method
Overflows(len, extra) ==
    \/ len + extra <= 0
    \/ len + extra > MaxInt32Int
    \/ len > MaxInt32Int

PackUint64Encode(pv) ==
    [err |-> NoErr, bytes |-> << PackUint64ID >> \o PutUint64(pv.Value)]

PackBytesEncode(pv) ==
    IF Overflows(Len(pv.Bytes), 5)
    THEN [err |-> ErrOverflow, bytes |-> << >>]
    ELSE [err |-> NoErr,
          bytes |-> << PackBytesID >> \o PutUint32(U32(Len(pv.Bytes))) \o pv.Bytes]

PackStringEncode(pv) ==
    IF Overflows(Len(pv.String), 5)
    THEN [err |-> ErrOverflow, bytes |-> << >>]
    ELSE [err |-> NoErr,
          bytes |-> << PackStringID >> \o PutUint32(U32(Len(pv.String))) \o pv.String]

RECURSIVE PackValueEncode(_)
RECURSIVE JoinValues(_, _, _)
RECURSIVE JoinElements(_, _, _)

\* the loop of PackValueSlice.Encode from element k on, acc the bytes so far
JoinValues(values, k, acc) ==
    IF k > Len(values) THEN [err |-> NoErr, bytes |-> acc]
    ELSE LET venc == PackValueEncode(values[k])
         IN  IF Failed(venc.err) THEN [err |-> venc.err, bytes |-> << >>]
             ELSE JoinValues(values, k + 1, acc \o venc.bytes)

\* the loop of PackMap.Encode from element k on
JoinElements(els, k, acc) ==
    IF k > Len(els) THEN [err |-> NoErr, bytes |-> acc]
    ELSE LET kenc == PackStringEncode([pv |-> "String", String |-> els[k].Key])
         IN  IF Failed(kenc.err) THEN [err |-> kenc.err, bytes |-> << >>]
             ELSE LET venc == PackValueEncode(els[k].Value)
                  IN  IF Failed(venc.err) THEN [err |-> venc.err, bytes |-> << >>]
                      ELSE JoinElements(els, k + 1, acc \o kenc.bytes \o venc.bytes)

PackValueSliceEncode(pv) ==
    IF Overflows(Len(pv.Values), 1)
    THEN [err |-> ErrOverflow, bytes |-> << >>]
    ELSE JoinValues(pv.Values, 1,
                    << PackArrayID >> \o PutUint32(U32(Len(pv.Values))))

PackMapEncode(pv) ==
    IF Overflows(Len(pv.Elements), 1)
    THEN [err |-> ErrOverflow, bytes |-> << >>]
    ELSE JoinElements(pv.Elements, 1,
                      << PackMapID >> \o PutUint32(U32(Len(pv.Elements))))

\* PackValue.Encode, dispatched on the dynamic type
PackValueEncode(pv) ==
    CASE pv.pv = "Uint64" -> PackUint64Encode(pv)
      [] pv.pv = "Bytes"  -> PackBytesEncode(pv)
      [] pv.pv = "String" -> PackStringEncode(pv)
      [] pv.pv = "Slice"  -> PackValueSliceEncode(pv)
      [] pv.pv = "Map"    -> PackMapEncode(pv)

RECURSIVE structToPackMap(_, _)
RECURSIVE SliceToPackMaps(_, _, _, _)
RECURSIVE FieldsToElements(_, _, _, _, _)

\* the loop over a slice of structs from element i on
SliceToPackMaps(et, s, i, acc) ==
    IF i > Len(s) THEN [err |-> NoErr, values |-> acc]
    ELSE LET vmap == structToPackMap(et, s[i])
         IN  IF Failed(vmap.err) THEN [err |-> vmap.err, values |-> << >>]
             ELSE SliceToPackMaps(et, s, i + 1, Append(acc, vmap.pm))

\* the PackValue (or error) of one field
FieldToPackValue(ft, fv) ==
    CASE ft.kind = "Array" ->
           IF ft.elKind # "Uint8"
           THEN [err |-> Err("UnsupportedArray", U32(0), U32(0)), pv |-> << >>]
           ELSE [err |-> NoErr, pv |-> [pv |-> "Bytes", Bytes |-> fv]]
      [] ft.kind = "Slice" ->
           CASE ft.elKind = "Uint8" ->
                  [err |-> NoErr, pv |-> [pv |-> "Bytes", Bytes |-> fv.s]]
             [] ft.elKind = "Struct" ->
                  LET r == SliceToPackMaps(ft.elem, fv.s, 1, << >>)
                  IN  IF Failed(r.err) THEN [err |-> r.err, pv |-> << >>]
                      ELSE [err |-> NoErr,
                            pv |-> [pv |-> "Slice", Values |-> r.values]]
             [] OTHER ->
                  [err |-> Err("UnsupportedSlice", U32(0), U32(0)), pv |-> << >>]
      [] ft.kind = "String" ->
           [err |-> NoErr, pv |-> [pv |-> "String", String |-> fv]]
      [] ft.kind = "Uint64" ->
           [err |-> NoErr, pv |-> [pv |-> "Uint64", Value |-> fv]]
      [] ft.kind = "Struct" ->
           LET fmap == structToPackMap(ft.elem, fv)
           IN  IF Failed(fmap.err) THEN [err |-> fmap.err, pv |-> << >>]
               ELSE [err |-> NoErr, pv |-> fmap.pm]
      [] OTHER ->
           [err |-> Err("UnsupportedKind", U32(0), U32(0)), pv |-> << >>]

\* the loop over the sorted fields from position k on
FieldsToElements(t, v, fields, k, acc) ==
    IF k > Len(fields) THEN [err |-> NoErr, els |-> acc]
    ELSE LET pf == fields[k]
             r == FieldToPackValue(t[pf.offset].ft, v[pf.offset])
         IN  IF Failed(r.err) THEN [err |-> r.err, els |-> << >>]
             ELSE FieldsToElements(t, v, fields, k + 1,
                      Append(acc, [Key |-> pf.parsedStructTag.FieldName,
                                   Value |-> r.pv]))

structToPackMap(t, v) ==
    IF Len(t) <= 0
    THEN [err |-> Err("NoFields", U32(0), U32(0)), pm |-> << >>]
    ELSE LET sf == sortStructFields(t)
         IN  IF Failed(sf.err) THEN [err |-> sf.err, pm |-> << >>]
             ELSE LET r == FieldsToElements(t, v, sf.fields, 1, << >>)
                  IN  IF Failed(r.err) THEN [err |-> r.err, pm |-> << >>]
                      ELSE [err |-> NoErr,
                            pm |-> [pv |-> "Map", Elements |-> r.els]]

\* Encode(o): the bytes, or the error
Encode(t, v) ==
    LET mte == structToPackMap(t, v)
    IN  IF Failed(mte.err) THEN [err |-> mte.err, bytes |-> << >>]
        ELSE PackMapEncode(mte.pm)

(***************************************************************************)
(* The Encode methods on values too large to write out.  Where int is 64   *)
(* bits wide (amd64, arm64) a byte slice, a string or a slice of records   *)
(* can hold 2^31 entries and more.  Such a PackValue is given by its       *)
(* lengths: [pv |-> "Bytes" or "String", len], [pv |-> "Uint64"],          *)
(* [pv |-> "Slice", count, each] for count elements of the sizes of each,  *)
(* [pv |-> "Map", Elements] with Elements of [Key, Value], Key the length  *)
(* of the key.  A length is a pair << hi, lo >> standing for               *)
(* hi * 2^30 + lo.  An Encode method then yields [err, size, fields]: the  *)
(* size of the buffer it returns and, for every length or count field it   *)
(* wrote, [written, actual].                                               *)
(***************************************************************************)
Base == 1073741824

Big(n) == << n \div Base, n % Base >>

BigAdd(a, b) ==
    << a[1] + b[1] + (a[2] + b[2]) \div Base, (a[2] + b[2]) % Base >>

BigGt(a, b) == a[1] > b[1] \/ (a[1] = b[1] /\ a[2] > b[2])

BigHalf(a) == << a[1] \div 2, (a[2] + (a[1] % 2) * Base) \div 2 >>

BigDouble(a) == BigAdd(a, a)

RECURSIVE BigMul(_, _)
BigMul(a, b) ==
    IF b = Big(0) THEN Big(0)
    ELSE BigAdd(BigDouble(BigMul(a, BigHalf(b))),
                IF b[2] % 2 = 1 THEN a ELSE Big(0))

\* math.MaxInt32 and math.MaxUint32
MaxInt32Big == << 1, Base - 1 >>
MaxUint32Big == << 3, Base - 1 >>

\* the conversion uint32(n) of an int
CastUint32(a) == << a[1] % 4, a[2] >>

\* n := len + extra; (n <= 0) || (n > math.MaxInt32) || (len > math.MaxInt32)
OverflowsBig(len, extra) ==
    \/ ~BigGt(BigAdd(len, Big(extra)), Big(0))
    \/ BigGt(BigAdd(len, Big(extra)), MaxInt32Big)
    \/ BigGt(len, MaxInt32Big)

SizeOverflow == [err |-> ErrOverflow, size |-> Big(0), fields |-> << >>]

\* PackBytes.Encode and PackString.Encode: buf := make([]byte, n)
PackBytesEncodeSize(pv) ==
    IF OverflowsBig(pv.len, 5) THEN SizeOverflow
    ELSE [err |-> NoErr, size |-> BigAdd(pv.len, Big(5)),
          fields |-> << [written |-> CastUint32(pv.len), actual |-> pv.len] >>]

RECURSIVE PackValueEncodeSize(_)
RECURSIVE JoinElementsSize(_, _, _)

\* bytes.Join of the header and of count encodings like venc
JoinValuesSize(count, venc) ==
    IF Failed(venc.err) THEN [err |-> venc.err, size |-> Big(0), fields |-> << >>]
    ELSE [err |-> NoErr,
          size |-> BigAdd(Big(5), BigMul(count, venc.size)),
          fields |-> << [written |-> CastUint32(count), actual |-> count] >>
                       \o venc.fields]

PackValueSliceEncodeSize(pv) ==
    IF OverflowsBig(pv.count, 1) THEN SizeOverflow
    ELSE IF pv.count = Big(0)
    THEN [err |-> NoErr, size |-> Big(5),
          fields |-> << [written |-> Big(0), actual |-> Big(0)] >>]
    ELSE JoinValuesSize(pv.count, PackValueEncodeSize(pv.each))

\* one turn of the loop of PackMap.Encode, the key and the value of element
\* k encoded to kenc and venc
ElementEncodedSize(els, k, acc, kenc, venc) ==
    IF Failed(kenc.err) THEN [err |-> kenc.err, size |-> Big(0), fields |-> << >>]
    ELSE IF Failed(venc.err)
    THEN [err |-> venc.err, size |-> Big(0), fields |-> << >>]
    ELSE JoinElementsSize(els, k + 1,
             [err |-> NoErr,
              size |-> BigAdd(acc.size, BigAdd(kenc.size, venc.size)),
              fields |-> acc.fields \o kenc.fields \o venc.fields])

\* the loop of PackMap.Encode from element k on and its bytes.Join
JoinElementsSize(els, k, acc) ==
    IF k > Len(els) THEN acc
    ELSE ElementEncodedSize(els, k, acc,
             PackBytesEncodeSize([pv |-> "String", len |-> els[k].Key]),
             PackValueEncodeSize(els[k].Value))

PackMapEncodeSize(pv) ==
    IF OverflowsBig(Big(Len(pv.Elements)), 1) THEN SizeOverflow
    ELSE JoinElementsSize(pv.Elements, 1,
             [err |-> NoErr, size |-> Big(5),
              fields |-> << [written |-> CastUint32(Big(Len(pv.Elements))),
                             actual |-> Big(Len(pv.Elements))] >>])

PackValueEncodeSize(pv) ==
    CASE pv.pv = "Uint64" -> [err |-> NoErr, size |-> Big(9), fields |-> << >>]
      [] pv.pv \in { "Bytes", "String" } -> PackBytesEncodeSize(pv)
      [] pv.pv = "Slice"  -> PackValueSliceEncodeSize(pv)
      [] pv.pv = "Map"    -> PackMapEncodeSize(pv)

(***************************************************************************)
(* The decoder.  data is the whole input; st is the reader's state:        *)
(*   pos    bytes consumed so far                                          *)
(*   lens   every length or count read from a header and the ceiling of    *)
(*          its position, [length, max], in reading order                  *)
(*   allocs every allocation whose size came from the wire, [size, max],   *)
(*          in allocation order                                            *)
(***************************************************************************)
NewReader == [pos |-> 0, lens |-> << >>, allocs |-> << >>]

\* io.ReadFull(data, buf) with len(buf) = n, n a 32-bit value: a short read
\* drains the reader
ReadFull(data, st, n) ==
    IF ~U32Gt(n, U32(Len(data) - st.pos))
    THEN [ok |-> TRUE,
          bytes |-> SubSeq(data, st.pos + 1, st.pos + U32ToInt(n)),
          st |-> [st EXCEPT !.pos = @ + U32ToInt(n)]]
    ELSE [ok |-> FALSE, bytes |-> << >>,
          st |-> [st EXCEPT !.pos = Len(data)]]

\* what decodeCommonHeader makes of the five bytes r it has read
HeaderRead(r, expectedType) ==
    IF ~r.ok
    THEN [err |-> ErrBufTooShort, length |-> U32(0), st |-> r.st]
    ELSE IF r.bytes[1] # expectedType
    THEN [err |-> Err("WrongHeaderByte", U32(r.bytes[1]), U32(expectedType)),
          length |-> U32(0), st |-> r.st]
    ELSE [err |-> NoErr, length |-> Uint32(SubSeq(r.bytes, 2, 5)), st |-> r.st]

decodeCommonHeader(data, st, expectedType) ==
    HeaderRead(ReadFull(data, st, U32(5)), expectedType)

\* checkMaxLength with the comparison off by one the strict way: a length
\* equal to the maximum is refused
checkMaxLengthAtMax(length, maxLength) ==
    IF ~U32Gt(maxLength, length)
    THEN Err("LengthExceeded", length, maxLength)
    ELSE IF U32Gt(length, MaxInt32)
    THEN Err("LengthOverflow", length, MaxInt32)
    ELSE NoErr

\* checkMaxLength with the comparison off by one the lax way: a length one
\* above the maximum passes
checkMaxLengthPlusOne(length, maxLength) ==
    IF U32Gt(length, U32(U32ToInt(maxLength) + 1))
    THEN Err("LengthExceeded", length, maxLength)
    ELSE IF U32Gt(length, MaxInt32)
    THEN Err("LengthOverflow", length, MaxInt32)
    ELSE NoErr

checkMaxLength(length, maxLength) ==
    IF U32Gt(length, maxLength)
    THEN Err("LengthExceeded", length, maxLength)
    ELSE IF U32Gt(length, MaxInt32)
    THEN Err("LengthOverflow", length, MaxInt32)
    ELSE NoErr

\* the reader state once a length read from a header met its ceiling
NoteLength(st, length, maxLength) ==
    [st EXCEPT !.lens = Append(@, [length |-> length, max |-> maxLength])]

\* the reader state once a buffer of a size read from the wire was made
NoteAlloc(st, size, maxLength) ==
    [st EXCEPT !.allocs = Append(@, [size |-> size, max |-> maxLength])]

\* the end of decodeByteSlice and decodeString: r is what io.ReadFull made of
\* the content
ContentRead(r) ==
    IF ~r.ok THEN [err |-> ErrBufTooShort, out |-> << >>, st |-> r.st]
    ELSE [err |-> NoErr, out |-> r.bytes, st |-> r.st]

\* decodeByteSlice and decodeString after checkMaxLength returned err:
\* out := make([]byte, length), then io.ReadFull
LengthChecked(data, st, length, maxLength, err) ==
    IF Failed(err) THEN [err |-> err, out |-> << >>, st |-> st]
    ELSE ContentRead(ReadFull(data, NoteAlloc(st, length, maxLength), length))

\* decodeByteSlice and decodeString without their call of checkMaxLength
HeaderDecodedUnchecked(data, h, maxLength) ==
    IF Failed(h.err) THEN [err |-> h.err, out |-> << >>, st |-> h.st]
    ELSE LengthChecked(data, NoteLength(h.st, h.length, maxLength), h.length,
                       maxLength, NoErr)

\* decodeByteSlice and decodeString after decodeCommonHeader returned h
HeaderDecoded(data, h, maxLength) ==
    IF Failed(h.err) THEN [err |-> h.err, out |-> << >>, st |-> h.st]
    ELSE LengthChecked(data, NoteLength(h.st, h.length, maxLength), h.length,
                       maxLength, checkMaxLength(h.length, maxLength))

\* the common body of decodeByteSlice and decodeString
DecodeLengthPrefixed(data, st, id, maxLength) ==
    HeaderDecoded(data, decodeCommonHeader(data, st, id), maxLength)

decodeByteSlice(data, st, maxLength) ==
    DecodeLengthPrefixed(data, st, PackBytesID, maxLength)

decodeString(data, st, maxLength) ==
    DecodeLengthPrefixed(data, st, PackStringID, maxLength)

\* what decodeUint64 makes of the nine bytes r it has read, the error of
\* io.ReadFull being shortReadErr
Uint64Read(r, shortReadErr) ==
    IF ~r.ok THEN [err |-> shortReadErr, out |-> << 0, 0, 0, 0 >>, st |-> r.st]
    ELSE IF r.bytes[1] # PackUint64ID
    THEN [err |-> Err("WrongHeaderByte", U32(r.bytes[1]), U32(PackUint64ID)),
          out |-> << 0, 0, 0, 0 >>, st |-> r.st]
    ELSE [err |-> NoErr, out |-> Uint64(SubSeq(r.bytes, 2, 9)), st |-> r.st]

\* decodeUint64 that does not look at the error of io.ReadFull
decodeUint64ShortReadIgnored(data, st) ==
    Uint64Read(ReadFull(data, st, U32(9)), NoErr)

decodeUint64(data, st) ==
    Uint64Read(ReadFull(data, st, U32(9)), ErrBufTooShort)

\* the array length check letting a longer byte string through (truncated)
arrayLengthAtLeast(dec, expectedLen) == Len(dec) >= expectedLen

\* "Length should be exact for arrays": len(dec) != expectedLen fails
arrayLengthExact(dec, expectedLen) == Len(dec) = expectedLen

RECURSIVE decodeStruct(_, _, _, _)
RECURSIVE MapHeaderDecoded(_, _, _, _)
RECURSIVE FieldsSorted(_, _, _, _, _)
RECURSIVE DecodeFields(_, _, _, _, _, _)
RECURSIVE KeyDecoded(_, _, _, _, _, _)
RECURSIVE ValueDecoded(_, _, _, _, _, _)
RECURSIVE DecodeFieldValue(_, _, _, _, _)
RECURSIVE ArrayHeaderDecoded(_, _, _, _, _, _)
RECURSIVE ArrayLengthChecked(_, _, _, _, _, _, _, _)
RECURSIVE DecodeElements(_, _, _, _, _, _)
RECURSIVE ElementDecoded(_, _, _, _, _, _)

\* one turn of the loop over dec, decodeStruct having returned r for dec[i]
ElementDecoded(data, r, et, dec, i, n) ==
    IF Failed(r.err) THEN [err |-> r.err, dec |-> dec, st |-> r.st]
    ELSE DecodeElements(data, r.st, et, [dec EXCEPT ![i] = r.val], i + 1, n)

\* the loop over the freshly made slice dec from element i on
DecodeElements(data, st, et, dec, i, n) ==
    IF i > n THEN [err |-> NoErr, dec |-> dec, st |-> st]
    ELSE ElementDecoded(data, decodeStruct(data, st, et, dec[i]), et, dec, i, n)

\* a byte array field, decodeByteSlice having returned d
ByteArrayDecoded(d, expectedName, ft, fv) ==
    IF Failed(d.err)
    THEN [err |-> Wrap(expectedName, d.err), val |-> fv, st |-> d.st]
    ELSE IF ~arrayLengthExact(d.out, ft.len)
    THEN [err |-> Err("ArrayLength", U32(ft.len), U32(Len(d.out))),
          val |-> fv, st |-> d.st]
    ELSE [err |-> NoErr, val |-> [i \in 1..ft.len |-> d.out[i]], st |-> d.st]

\* a byte slice field, decodeByteSlice having returned d
ByteSliceDecoded(d, expectedName, fv) ==
    IF Failed(d.err)
    THEN [err |-> Wrap(expectedName, d.err), val |-> fv, st |-> d.st]
    ELSE [err |-> NoErr, val |-> MkSlice(d.out), st |-> d.st]

\* a string or uint64 field set to the zero result of a decode call that
\* failed
ScalarDecodedAssigning(d, expectedName, fv) ==
    IF Failed(d.err)
    THEN [err |-> Wrap(expectedName, d.err), val |-> d.out, st |-> d.st]
    ELSE [err |-> NoErr, val |-> d.out, st |-> d.st]

\* a string or uint64 field, decodeString or decodeUint64 having returned d
ScalarDecoded(d, expectedName, fv) ==
    IF Failed(d.err)
    THEN [err |-> Wrap(expectedName, d.err), val |-> fv, st |-> d.st]
    ELSE [err |-> NoErr, val |-> d.out, st |-> d.st]

\* a struct field, decoded in place: the nested struct keeps what was set
\* before an error; decodeStruct returned r
NestedDecoded(r, expectedName) ==
    IF Failed(r.err)
    THEN [err |-> Wrap(expectedName, r.err), val |-> r.val, st |-> r.st]
    ELSE [err |-> NoErr, val |-> r.val, st |-> r.st]

\* a slice-of-structs field, the loop over its elements having returned r
ElementsDecoded(r, expectedName, fv) ==
    IF Failed(r.err)
    THEN [err |-> Wrap(expectedName, r.err), val |-> fv, st |-> r.st]
    ELSE [err |-> NoErr, val |-> MkSlice(r.dec), st |-> r.st]

\* a slice-of-structs field after checkMaxLength returned err:
\* dec := reflect.MakeSlice(structField.Type, ilen, ilen), then the loop
ArrayLengthChecked(data, st, length, MaxLen, err, expectedName, ft, fv) ==
    IF Failed(err)
    THEN [err |-> Wrap(expectedName, err), val |-> fv, st |-> st]
    ELSE IF U32Gt(length, MaxInt32)
    THEN [err |-> Wrap(expectedName, Err("LengthOverflow", length, MaxInt32)),
          val |-> fv, st |-> st]
    ELSE ElementsDecoded(
             DecodeElements(data, NoteAlloc(st, length, MaxLen), ft.elem,
                            [i \in 1..U32ToInt(length) |-> ZeroValue(ft.elem)],
                            1, U32ToInt(length)),
             expectedName, fv)

\* a slice-of-structs field, decodeCommonHeader having returned h
ArrayHeaderDecoded(data, h, expectedName, MaxLen, ft, fv) ==
    IF Failed(h.err)
    THEN [err |-> Wrap(expectedName, h.err), val |-> fv, st |-> h.st]
    ELSE ArrayLengthChecked(data, NoteLength(h.st, h.length, MaxLen), h.length,
                            MaxLen, checkMaxLength(h.length, MaxLen),
                            expectedName, ft, fv)

\* the value switch of decodeStruct for one field: the field's new value (its
\* old one where the code returns before setting it)
DecodeFieldValue(data, st, pf, ft, fv) ==
    CASE ft.kind = "Array" ->
           IF ft.elKind # "Uint8"
           THEN [err |-> Err("UnsupportedArray", U32(0), U32(0)), val |-> fv, st |-> st]
           ELSE ByteArrayDecoded(decodeByteSlice(data, st, pf.parsedStructTag.MaxLen),
                                 pf.parsedStructTag.FieldName, ft, fv)
      [] ft.kind = "Slice" ->
           CASE ft.elKind = "Uint8" ->
                  ByteSliceDecoded(decodeByteSlice(data, st, pf.parsedStructTag.MaxLen),
                                   pf.parsedStructTag.FieldName, fv)
             [] ft.elKind = "Struct" ->
                  ArrayHeaderDecoded(data, decodeCommonHeader(data, st, PackArrayID),
                                     pf.parsedStructTag.FieldName,
                                     pf.parsedStructTag.MaxLen, ft, fv)
             [] OTHER ->
                  [err |-> Err("UnsupportedSlice", U32(0), U32(0)), val |-> fv, st |-> st]
      [] ft.kind = "String" ->
           ScalarDecoded(decodeString(data, st, pf.parsedStructTag.MaxLen),
                         pf.parsedStructTag.FieldName, fv)
      [] ft.kind = "Uint64" ->
           ScalarDecoded(decodeUint64(data, st), pf.parsedStructTag.FieldName, fv)
      [] ft.kind = "Struct" ->
           NestedDecoded(decodeStruct(data, st, ft.elem, fv),
                         pf.parsedStructTag.FieldName)
      [] OTHER ->
           [err |-> Err("UnsupportedKind", U32(0), U32(0)), val |-> fv, st |-> st]

\* one turn of the loop over the fields, the value switch having returned r
\* for fields[k]: the field is set, also when decoding in place failed
ValueDecoded(data, r, t, v, fields, k) ==
    IF Failed(r.err)
    THEN [err |-> r.err, val |-> [v EXCEPT ![fields[k].offset] = r.val],
          st |-> r.st]
    ELSE DecodeFields(data, r.st, t, [v EXCEPT ![fields[k].offset] = r.val],
                      fields, k + 1)

\* the loop over the fields taking the value of an entry under any key
KeyDecodedAnyName(data, key, t, v, fields, k) ==
    IF Failed(key.err) THEN [err |-> key.err, val |-> v, st |-> key.st]
    ELSE ValueDecoded(data,
                      DecodeFieldValue(data, key.st, fields[k],
                                       t[fields[k].offset].ft, v[fields[k].offset]),
                      t, v, fields, k)

\* one turn of the loop over the fields, decodeString having returned key
KeyDecoded(data, key, t, v, fields, k) ==
    IF Failed(key.err) THEN [err |-> key.err, val |-> v, st |-> key.st]
    ELSE IF key.out # fields[k].parsedStructTag.FieldName
    THEN [err |-> Err("UnexpectedFieldName", U32(0), U32(0)),
          val |-> v, st |-> key.st]
    ELSE ValueDecoded(data,
                      DecodeFieldValue(data, key.st, fields[k],
                                       t[fields[k].offset].ft, v[fields[k].offset]),
                      t, v, fields, k)

\* the loop over the sorted fields from position k on
DecodeFields(data, st, t, v, fields, k) ==
    IF k > Len(fields) THEN [err |-> NoErr, val |-> v, st |-> st]
    ELSE KeyDecoded(data, decodeString(data, st, U32(maxTagFieldNameLength)),
                    t, v, fields, k)

\* decodeStruct after sortStructFields returned sf
FieldsSorted(data, st, sf, t, v) ==
    IF Failed(sf.err) THEN [err |-> sf.err, val |-> v, st |-> st]
    ELSE DecodeFields(data, st, t, v, sf.fields, 1)

\* decodeStruct letting a map with more entries than the struct has fields
\* through
MapHeaderDecodedAtLeast(data, h, t, v) ==
    IF Failed(h.err) THEN [err |-> h.err, val |-> v, st |-> h.st]
    ELSE IF U32Gt(U32(Len(t)), h.length)
    THEN [err |-> Err("WrongMapSize", h.length, U32(Len(t))),
          val |-> v, st |-> h.st]
    ELSE FieldsSorted(data, h.st, sortStructFields(t), t, v)

\* decodeStruct after decodeCommonHeader returned h
MapHeaderDecoded(data, h, t, v) ==
    IF Failed(h.err) THEN [err |-> h.err, val |-> v, st |-> h.st]
    ELSE IF h.length # U32(Len(t))
    THEN [err |-> Err("WrongMapSize", h.length, U32(Len(t))),
          val |-> v, st |-> h.st]
    ELSE FieldsSorted(data, h.st, sortStructFields(t), t, v)

\* decodeStruct into the struct v of type t: [err, val, st], val the struct
\* as the call leaves it
decodeStruct(data, st, t, v) ==
    IF Len(t) <= 0
    THEN [err |-> Err("NoFields", U32(0), U32(0)), val |-> v, st |-> st]
    ELSE MapHeaderDecoded(data, decodeCommonHeader(data, st, PackMapID), t, v)

\* Decode(data, &o) and DecodeBytes(data, &o)
Decode(data, t, v) == decodeStruct(data, NewReader, t, v)

\* Decode called on a reader that was left in state st, but reading the
\* input from its start again
DecodeReaderRewound(data, st, t, v) == decodeStruct(data, NewReader, t, v)

\* Decode(r, &o) on a reader r that earlier calls left in state st
DecodeReader(data, st, t, v) == decodeStruct(data, st, t, v)

(***************************************************************************)
(* The struct types and values the codec is exercised on.                  *)
(***************************************************************************)
\* wire names: "a", "b", "ba", "c", and names of 32 and of 33 bytes
nA == << 97 >>
nB == << 98 >>
nBa == << 98, 97 >>
nC == << 99 >>
Name32 == [i \in 1..maxTagFieldNameLength |-> 97]
LongName == [i \in 1..(maxTagFieldNameLength + 1) |-> 97]

\* struct { C uint64 `c`; Ba string `ba,2`; B []byte `b,2` }
Scalars == << Field(Tag(nC, << >>), TUint64),
              Field(Tag(nBa, << 2 >>), TString),
              Field(Tag(nB, << 2 >>), TBytes) >>

\* the same fields in another declaration order, and another maximum
ScalarsReordered == << Field(Tag(nB, << 3 >>), TBytes),
                       Field(Tag(nC, << >>), TUint64),
                       Field(Tag(nBa, << 2 >>), TString) >>

\* struct { B [2]byte `b,2`; A uint64 `a` }
WithArray2 == << Field(Tag(nB, << 2 >>), TByteArray(2)),
                 Field(Tag(nA, << >>), TUint64) >>

\* struct { B [1]byte `b,2`; A uint64 `a` }
WithArray1 == << Field(Tag(nB, << 2 >>), TByteArray(1)),
                 Field(Tag(nA, << >>), TUint64) >>

\* struct { A [2]byte `a,1` }: the array is longer than its declared maximum
ArrayOverMax == << Field(Tag(nA, << 1 >>), TByteArray(2)) >>

\* struct { A [2]byte `a,3` }
ArrayWithin == << Field(Tag(nA, << 3 >>), TByteArray(2)) >>

\* struct { A [0]byte `a` }
EmptyArray == << Field(Tag(nA, << >>), TByteArray(0)) >>

\* struct { A []byte `a` }, struct { A string `a` }: no maximum declared
BytesNoMax == << Field(Tag(nA, << >>), TBytes) >>
StringNoMax == << Field(Tag(nA, << >>), TString) >>

\* struct { A [1]byte `a` }: no maximum declared
ArrayNoMax == << Field(Tag(nA, << >>), TByteArray(1)) >>

\* struct { A []byte `a,1` }
Inner == << Field(Tag(nA, << 1 >>), TBytes) >>

\* struct { C Inner `c`; A uint64 `a` }
Parent == << Field(Tag(nC, << >>), TStruct(Inner)),
             Field(Tag(nA, << >>), TUint64) >>

\* struct { A uint64 `a` }
Elem == << Field(Tag(nA, << >>), TUint64) >>

\* struct { A []Elem `a,2` }
Kids == << Field(Tag(nA, << 2 >>), TStructSlice(Elem)) >>

\* struct { A []Elem `a` }: no maximum declared
KidsNoMax == << Field(Tag(nA, << >>), TStructSlice(Elem)) >>

\* a wire name of exactly 32 bytes
NameAtLimit == << Field(Tag(Name32, << >>), TUint64) >>

\* a wire name of 33 bytes, without and with a declared maximum
LongNameNoMax == << Field(Tag(LongName, << >>), TUint64) >>
LongNameMax == << Field(Tag(LongName, << 5 >>), TUint64) >>

\* struct { A []byte }: no struct tag
MissingTag == << Field(NoTag, TBytes) >>

\* two fields with the wire name "a"
DupNames == << Field(Tag(nA, << >>), TUint64), Field(Tag(nA, << >>), TUint64) >>

\* the wire name "a" on the first and the last of three fields, on the last
\* two, and on two fields next to one without a struct tag
DupApart == << Field(Tag(nA, << >>), TUint64),
               Field(Tag(nB, << 2 >>), TString),
               Field(Tag(nA, << 2 >>), TBytes) >>
DupLast == << Field(Tag(nB, << 2 >>), TString),
              Field(Tag(nA, << >>), TUint64),
              Field(Tag(nA, << 2 >>), TBytes) >>
DupWithMissingTag == << Field(Tag(nA, << >>), TUint64),
                        Field(Tag(nA, << >>), TUint64),
                        Field(NoTag, TUint64) >>

\* struct {}
NoFields == << >>

\* struct { B int `b`; A uint64 `a` }, struct { A []int `a,2` },
\* struct { A [2]int `a,2` }
BadKind == << Field(Tag(nB, << >>), TOther), Field(Tag(nA, << >>), TUint64) >>
BadSlice == << Field(Tag(nA, << 2 >>), TOtherSlice) >>
BadArray == << Field(Tag(nA, << 2 >>), TOtherArray(2)) >>

\* a malformed struct type as a nested struct and as a slice's element type
NestedBad == << Field(Tag(nA, << >>), TStruct(MissingTag)) >>
SliceOfBad == << Field(Tag(nA, << 2 >>), TStructSlice(MissingTag)) >>

\* maxima of 2^31 and of 2^32
MaxTooLong == << Field(Tag(nA, << 2, 1, 4, 7, 4, 8, 3, 6, 4, 8 >>), TBytes) >>
MaxUnparsable == << Field(Tag(nA, << 4, 2, 9, 4, 9, 6, 7, 2, 9, 6 >>), TBytes) >>

Types == { Scalars, ScalarsReordered, WithArray2, WithArray1, ArrayOverMax,
           ArrayWithin,
           EmptyArray, BytesNoMax, StringNoMax, ArrayNoMax, Parent, Kids,
           KidsNoMax, NameAtLimit, LongNameNoMax, LongNameMax, MissingTag,
           DupNames, DupApart, DupLast, DupWithMissingTag, NoFields, BadKind,
           BadSlice, BadArray, NestedBad, SliceOfBad, MaxTooLong, MaxUnparsable }

\* the content of n bytes drawn for strings and byte slices
Content(n) == [i \in 1..n |-> 64 + i]

\* 1234 and 2^64 - 1
Uint64Values == { << 0, 0, 0, 1234 >>, << 65535, 65535, 65535, 65535 >> }

RECURSIVE SeqsUpTo(_, _)
\* the sequences over S of length at most n
SeqsUpTo(S, n) ==
    IF n = 0 THEN { << >> }
    ELSE LET shorter == SeqsUpTo(S, n - 1)
         IN  shorter \cup { Append(s, x) : s \in { q \in shorter : Len(q) = n - 1 },
                                           x \in S }

RECURSIVE ValuesOf(_)
RECURSIVE StructsUpTo(_, _)

\* the values drawn for a field of type ft
FieldValues(ft) ==
    CASE ft.kind = "Uint64" -> Uint64Values
      [] ft.kind = "String" -> { Content(n) : n \in 0..MaxContent }
      [] ft.kind = "Array"  -> { [i \in 1..ft.len |-> 118 + i] }
      [] ft.kind = "Struct" -> ValuesOf(ft.elem)
      [] ft.kind = "Slice" /\ ft.elKind = "Uint8" ->
           { NilSlice } \cup { MkSlice(Content(n)) : n \in 0..MaxContent }
      [] ft.kind = "Slice" /\ ft.elKind = "Struct" ->
           { NilSlice } \cup { MkSlice(s) : s \in SeqsUpTo(ValuesOf(ft.elem), MaxElems) }
      [] OTHER -> { 0 }

\* the values of the first k fields of t
StructsUpTo(t, k) ==
    IF k = 0 THEN { << >> }
    ELSE { Append(v, x) : v \in StructsUpTo(t, k - 1), x \in FieldValues(t[k].ft) }

ValuesOf(t) == StructsUpTo(t, Len(t))

(***************************************************************************)
(* The state machine: one record is encoded, its bytes reach a decoder     *)
(* intact, cut short, with one byte changed or with bytes appended, and    *)
(* are decoded into a zero struct of some type.                            *)
(***************************************************************************)
VARIABLES
    pc,      \* "start", "encoded", "compared", "wire", "decoded", "stream",
             \* "first" or "second"
    typ,     \* the struct type of the record given to Encode
    rec,     \* the record given to Encode
    enc,     \* what Encode returned: [err, bytes]
    typ2,    \* a second struct type with the same wire names and kinds
    rec2,    \* the record of typ2 with the field values of rec
    enc2,    \* what Encode returned for rec2
    data,    \* the bytes given to DecodeBytes
    sent,    \* the PackMap data is the serialization of, NoMap when of none
    dtyp,    \* the struct type of the decode target
    tgt,     \* the decode target as it was before the call
    out,     \* the decode target, as DecodeBytes left it
    derr,    \* the error DecodeBytes returned
    rd       \* the reader state at the return of DecodeBytes

vars == << pc, typ, rec, enc, typ2, rec2, enc2, data, sent, dtyp, tgt, out, derr, rd >>

NoResult == [err |-> NoErr, bytes |-> << >>]

\* the value of sent for bytes that no PackMap was serialized to
NoMap == [pv |-> "None"]

Init ==
    /\ pc = "start"
    /\ typ \in Types
    /\ rec \in ValuesOf(typ)
    /\ enc = NoResult
    /\ typ2 = << >>
    /\ rec2 = << >>
    /\ enc2 = NoResult
    /\ data = << >>
    /\ sent = NoMap
    /\ dtyp = << >>
    /\ tgt = << >>
    /\ out = << >>
    /\ derr = NoErr
    /\ rd = NewReader

\* enc, err := Encode(rec)
DoEncode ==
    /\ pc = "start"
    /\ enc' = Encode(typ, rec)
    /\ pc' = "encoded"
    /\ UNCHANGED << typ, rec, typ2, rec2, enc2, data, sent, dtyp, tgt, out, derr, rd >>

\* the wire names of a struct type whose fields all carry a tag
WireNames(t) == { t[i].tag.name : i \in 1..Len(t) }

\* t and u declare the same (wire name, field kind) pairs
SameWireShape(t, u) ==
    /\ Len(t) = Len(u)
    /\ \A i \in 1..Len(t) : t[i].tag.match
    /\ \A i \in 1..Len(u) : u[i].tag.match
    /\ Cardinality(WireNames(t)) = Len(t)
    /\ Cardinality(WireNames(u)) = Len(u)
    /\ \A i \in 1..Len(u) : \E j \in 1..Len(t) :
          t[j].tag.name = u[i].tag.name /\ t[j].ft = u[i].ft

\* the record of type u that has the field values of v, a record of type t
SameValues(t, v, u) ==
    [i \in 1..Len(u) |->
        v[CHOOSE j \in 1..Len(t) : t[j].tag.name = u[i].tag.name]]

\* Encode of an equal-valued record of a type that declares the same fields
\* in another order
EncodeReordered ==
    /\ pc = "encoded"
    /\ \E u \in Types :
          /\ u # typ
          /\ SameWireShape(typ, u)
          /\ typ2' = u
          /\ rec2' = SameValues(typ, rec, u)
          /\ enc2' = Encode(u, SameValues(typ, rec, u))
    /\ pc' = "compared"
    /\ UNCHANGED << typ, rec, enc, data, sent, dtyp, tgt, out, derr, rd >>

\* the bytes reach the decoder as Encode returned them
SendIntact ==
    /\ pc = "encoded"
    /\ ~Failed(enc.err)
    /\ data' = enc.bytes
    /\ sent' = structToPackMap(typ, rec).pm
    /\ pc' = "wire"
    /\ UNCHANGED << typ, rec, enc, typ2, rec2, enc2, dtyp, tgt, out, derr, rd >>

\* only the first k bytes reach the decoder
SendPrefix ==
    /\ pc = "encoded"
    /\ ~Failed(enc.err)
    /\ \E k \in 0..(Len(enc.bytes) - 1) : data' = SubSeq(enc.bytes, 1, k)
    /\ sent' = NoMap
    /\ pc' = "wire"
    /\ UNCHANGED << typ, rec, enc, typ2, rec2, enc2, dtyp, tgt, out, derr, rd >>

\* the values one byte b of the wire is changed to
Tampered(b) == { (b + 1) % 256, 0, 255 } \ { b }

\* one byte is changed on the way
SendTampered ==
    /\ pc = "encoded"
    /\ ~Failed(enc.err)
    /\ \E i \in 1..Len(enc.bytes) : \E b \in Tampered(enc.bytes[i]) :
          data' = [enc.bytes EXCEPT ![i] = b]
    /\ sent' = NoMap
    /\ pc' = "wire"
    /\ UNCHANGED << typ, rec, enc, typ2, rec2, enc2, dtyp, tgt, out, derr, rd >>

\* bytes that may follow the encoding in the decoder's input
Trailers == { << 0 >>, << PackMapID, 0, 0, 0, 1 >> }

\* the encoding is followed by more bytes
SendExtended ==
    /\ pc = "encoded"
    /\ ~Failed(enc.err)
    /\ \E x \in Trailers : data' = enc.bytes \o x
    /\ sent' = NoMap
    /\ pc' = "wire"
    /\ UNCHANGED << typ, rec, enc, typ2, rec2, enc2, dtyp, tgt, out, derr, rd >>

\* the PackMaps that differ from pm in their keys only: two entries swapped,
\* the key of one entry repeated on another, one key a byte longer
KeyVariants(pm) ==
    LET n == Len(pm.Elements)
        Keyed(i, key) ==
            [pm EXCEPT !.Elements[i] = [Key |-> key, Value |-> @.Value]]
    IN  ({ [pm EXCEPT !.Elements[i] = pm.Elements[j],
                      !.Elements[j] = pm.Elements[i]] : i \in 1..n, j \in 1..n }
           \cup { Keyed(i, pm.Elements[j].Key) : i \in 1..n, j \in 1..n }
           \cup { Keyed(i, pm.Elements[i].Key \o << 122 >>) : i \in 1..n })
        \ { pm }

\* the decoder is sent the record as another encoder serialized it: with
\* the map entries in another order or under other keys
SendNonCanonical ==
    /\ pc = "encoded"
    /\ ~Failed(enc.err)
    /\ \E w \in KeyVariants(structToPackMap(typ, rec).pm) :
          /\ data' = PackMapEncode(w).bytes
          /\ sent' = w
    /\ pc' = "wire"
    /\ UNCHANGED << typ, rec, enc, typ2, rec2, enc2, dtyp, tgt, out, derr, rd >>

\* the struct types the bytes of a record of type t are decoded into
Targets(t) == Types

\* what a target of type t holds before the call: nothing yet (var o T), or
\* the record that was encoded, when it is of that type
PreCall(t) == { ZeroValue(t) } \cup (IF t = typ THEN { rec } ELSE { })

\* the call returns: the target o of type t holds r.val, the error is r.err
\* and the reader stands at r.st
Returns(t, o, r) ==
    /\ dtyp' = t
    /\ tgt' = o
    /\ out' = r.val
    /\ derr' = r.err
    /\ rd' = r.st

\* err := DecodeBytes(data, &o)
DoDecodeBytes ==
    /\ pc = "wire"
    /\ \E t \in Targets(typ) : \E o \in PreCall(t) :
          Returns(t, o, Decode(data, t, o))
    /\ pc' = "decoded"
    /\ UNCHANGED << typ, rec, enc, typ2, rec2, enc2, data, sent >>

\* the records that follow the first one on a stream: a nil byte slice, a
\* nested record, three fields at their maxima, a string above its maximum
\* and a slice of two records
Seconds ==
    { [t |-> BytesNoMax, v |-> << NilSlice >>],
      [t |-> Parent, v |-> << << MkSlice(Content(1)) >>, << 0, 0, 0, 1234 >> >>],
      [t |-> Scalars,
       v |-> << << 65535, 65535, 65535, 65535 >>, Content(2), MkSlice(Content(2)) >>],
      [t |-> Scalars,
       v |-> << << 0, 0, 0, 1234 >>, Content(MaxContent), MkSlice(Content(1)) >>],
      [t |-> Kids,
       v |-> << MkSlice(<< << << 0, 0, 0, 1234 >> >>,
                           << << 65535, 65535, 65535, 65535 >> >> >>) >>] }

\* the encoding e of the record s is written after the first one's
Appended(s, e) ==
    /\ typ2' = s.t
    /\ rec2' = s.v
    /\ enc2' = e
    /\ data' = enc.bytes \o e.bytes

\* a writer sends the encodings of two records, one after the other
SendStream ==
    /\ pc = "encoded"
    /\ ~Failed(enc.err)
    /\ \E s \in Seconds : Appended(s, Encode(s.t, s.v))
    /\ sent' = NoMap
    /\ pc' = "stream"
    /\ UNCHANGED << typ, rec, enc, dtyp, tgt, out, derr, rd >>

\* r := bytes.NewReader(data); var o T; err := Decode(r, &o)
DecodeFirst ==
    /\ pc = "stream"
    /\ Returns(typ, ZeroValue(typ),
               DecodeReader(data, NewReader, typ, ZeroValue(typ)))
    /\ pc' = "first"
    /\ UNCHANGED << typ, rec, enc, typ2, rec2, enc2, data, sent >>

\* what the target of the second call holds before it: nothing yet, or,
\* when the records are of one type, what the first call decoded
SecondTargets ==
    { ZeroValue(typ2) } \cup (IF typ2 = typ THEN { out } ELSE { })

\* err = Decode(r, &o2) on the same reader, after a first call that
\* succeeded
DecodeSecond ==
    /\ pc = "first"
    /\ ~Failed(derr)
    /\ \E o \in SecondTargets :
          Returns(typ2, o, DecodeReader(data, rd, typ2, o))
    /\ pc' = "second"
    /\ UNCHANGED << typ, rec, enc, typ2, rec2, enc2, data, sent >>

Next ==
    \/ DoEncode
    \/ EncodeReordered
    \/ SendIntact
    \/ SendPrefix
    \/ SendTampered
    \/ SendExtended
    \/ SendNonCanonical
    \/ SendStream
    \/ DoDecodeBytes
    \/ DecodeFirst
    \/ DecodeSecond

Spec == Init /\ [][Next]_vars

(***************************************************************************)
(* A second state machine: Encode on records with very long fields, the    *)
(* PackMap of the record given by its lengths.                             *)
(***************************************************************************)
\* lengths around 2^31 and 2^32
Pow31 == << 2, 0 >>
Pow32 == << 4, 0 >>

\* a - k for a small k
BigLess(a, k) ==
    IF a[2] >= k THEN << a[1], a[2] - k >> ELSE << a[1] - 1, a[2] + Base - k >>

LargeLens ==
    { Big(0), Big(1), BigLess(Pow31, 7), BigLess(Pow31, 6), BigLess(Pow31, 5),
      BigLess(Pow31, 1), Pow31, BigLess(Pow32, 6), BigLess(Pow32, 1), Pow32 }

LargeCounts ==
    { Big(0), Big(1), Big(2), BigLess(Pow31, 2), BigLess(Pow31, 1), Pow31 }

BytesOf(len) == [pv |-> "Bytes", len |-> len]
StringOf(len) == [pv |-> "String", len |-> len]
MapOf(els) == [pv |-> "Map", Elements |-> els]
Entry(keyLen, v) == [Key |-> Big(keyLen), Value |-> v]

\* the PackMaps of records of the types
\*   struct { A []byte `a` }, struct { A []byte `a`; B string `b` },
\*   struct { C Inner `c`; A uint64 `a` } and
\*   struct { A []struct { A []byte `a` } `a` }
LargeMaps ==
    { MapOf(<< Entry(1, BytesOf(l)) >>) : l \in LargeLens }
      \cup { MapOf(<< Entry(1, BytesOf(l)), Entry(1, StringOf(m)) >>) :
                l \in LargeLens, m \in LargeLens }
      \cup { MapOf(<< Entry(1, [pv |-> "Uint64"]),
                      Entry(1, MapOf(<< Entry(1, BytesOf(l)) >>)) >>) :
                l \in LargeLens }
      \cup { MapOf(<< Entry(1, [pv |-> "Slice", count |-> c,
                                each |-> MapOf(<< Entry(1, BytesOf(l)) >>)]) >>) :
                c \in LargeCounts, l \in { Big(0), Big(1), Pow31 } }

NoSize == [err |-> NoErr, size |-> Big(0), fields |-> << >>]

LargeInit ==
    /\ pc = "start"
    /\ typ = << >>
    /\ rec \in LargeMaps
    /\ enc = NoSize
    /\ typ2 = << >>
    /\ rec2 = << >>
    /\ enc2 = NoResult
    /\ data = << >>
    /\ sent = NoMap
    /\ dtyp = << >>
    /\ tgt = << >>
    /\ out = << >>
    /\ derr = NoErr
    /\ rd = NewReader

\* mte.Encode() at the end of Encode
EncodeLarge ==
    /\ pc = "start"
    /\ enc' = PackMapEncodeSize(rec)
    /\ pc' = "encoded"
    /\ UNCHANGED << typ, rec, typ2, rec2, enc2, data, sent, dtyp, tgt, out, derr, rd >>

LargeNext == EncodeLarge

LargeSpec == LargeInit /\ [][LargeNext]_vars

(***************************************************************************)
(* Predicates on types, values and byte strings the properties use.        *)
(***************************************************************************)
SupportedKind(ft) ==
    \/ ft.kind \in { "Uint64", "String", "Struct" }
    \/ ft.kind = "Array" /\ ft.elKind = "Uint8"
    \/ ft.kind = "Slice" /\ ft.elKind \in { "Uint8", "Struct" }

RECURSIVE Resolves(_)
\* the descriptors of t, and of every struct type nested in it, resolve
\* without a definition error
Resolves(t) ==
    /\ Len(t) > 0
    /\ ~Failed(sortStructFields(t).err)
    /\ \A i \in 1..Len(t) :
          /\ SupportedKind(t[i].ft)
          /\ (t[i].ft.kind = "Struct" \/ t[i].ft.elKind = "Struct")
                => Resolves(t[i].ft.elem)

RECURSIVE WithinCeilings(_, _)
\* every wire name of v's type is at most 32 bytes and every content length
\* and element count of v is within its field's declared maximum
WithinCeilings(t, v) ==
    LET fields == sortStructFields(t).fields
    IN  \A k \in 1..Len(fields) :
          LET ft == t[fields[k].offset].ft
              fv == v[fields[k].offset]
              M == U32ToInt(fields[k].parsedStructTag.MaxLen)
          IN  /\ Len(fields[k].parsedStructTag.FieldName) <= maxTagFieldNameLength
              /\ CASE ft.kind \in { "String", "Array" } -> Len(fv) <= M
                   [] ft.kind = "Slice" /\ ft.elKind = "Uint8" -> Len(fv.s) <= M
                   [] ft.kind = "Slice" /\ ft.elKind = "Struct" ->
                        /\ Len(fv.s) <= M
                        /\ \A e \in 1..Len(fv.s) : WithinCeilings(ft.elem, fv.s[e])
                   [] ft.kind = "Struct" -> WithinCeilings(ft.elem, fv)
                   [] OTHER -> TRUE

RECURSIVE NilAsEmpty(_, _)
\* v with every nil slice replaced by an empty one
NilAsEmpty(t, v) ==
    [i \in 1..Len(t) |->
        LET ft == t[i].ft IN
        CASE ft.kind = "Slice" /\ ft.elKind = "Uint8" -> MkSlice(v[i].s)
          [] ft.kind = "Slice" /\ ft.elKind = "Struct" ->
               MkSlice([e \in 1..Len(v[i].s) |-> NilAsEmpty(ft.elem, v[i].s[e])])
          [] ft.kind = "Struct" -> NilAsEmpty(ft.elem, v[i])
          [] OTHER -> v[i]]

IsProperPrefix(p, b) == Len(p) < Len(b) /\ p = SubSeq(b, 1, Len(p))

\* the decoder was given exactly what Encode returned, to decode into a
\* struct of the encoded record's type
RoundTrip == pc = "decoded" /\ dtyp = typ /\ data = enc.bytes

(***************************************************************************)
(* C1.  Round trip.                                                        *)
(***************************************************************************)
\* C1, as claimed: for every record whose type resolves without a
\* definition error, at any declared maximum and any content, Encode
\* succeeds and DecodeBytes of its result succeeds with a target equal to
\* the record.
C1_RoundTripAnyContent ==
    /\ (pc # "start" /\ Resolves(typ)) => ~Failed(enc.err)
    /\ (RoundTrip /\ Resolves(typ)) => (~Failed(derr) /\ out = rec)

\* C1, amended: for every record whose type resolves without a definition
\* error Encode succeeds; DecodeBytes of its result succeeds exactly when
\* every wire name is at most 32 bytes and every content length and element
\* count is within its field's declared maximum (0 when none is declared),
\* and the target then equals the record with its nil slices made empty.
C1_RoundTripWithinCeilings ==
    /\ (pc = "encoded" /\ Resolves(typ)) => ~Failed(enc.err)
    /\ (RoundTrip /\ Resolves(typ)) =>
          /\ ~Failed(derr) <=> WithinCeilings(typ, rec)
          /\ ~Failed(derr) => out = NilAsEmpty(typ, rec)

\* a nested record with a nonempty byte slice has gone round
C1_Witness ==
    /\ RoundTrip
    /\ typ = Parent
    /\ rec[1] = << MkSlice(Content(1)) >>
    /\ ~Failed(derr)
    /\ out = rec

(***************************************************************************)
(* C2.  Canonicality.                                                      *)
(***************************************************************************)
\* the keys of a PackMap's elements ascend strictly, byte-wise
KeysAscend(pm) ==
    \A k \in 2..Len(pm.Elements) :
        StrLess(pm.Elements[k-1].Key, pm.Elements[k].Key)

\* C2: two types that declare the same (wire name, field kind) pairs in
\* different orders encode equal-valued records to the same bytes, the map
\* entries in strictly ascending byte-wise order of wire name.
C2_Canonical ==
    (pc = "compared" /\ ~Failed(enc.err) /\ ~Failed(enc2.err)) =>
        /\ enc2.bytes = enc.bytes
        /\ KeysAscend(structToPackMap(typ, rec).pm)
        /\ KeysAscend(structToPackMap(typ2, rec2).pm)

\* a three-field record and its reordered twin have both been encoded
C2_Witness ==
    /\ pc = "compared"
    /\ typ = Scalars
    /\ typ2 = ScalarsReordered
    /\ rec[2] = Content(2)
    /\ ~Failed(enc.err)
    /\ ~Failed(enc2.err)

(***************************************************************************)
(* C3.  Non-canonical input.                                               *)
(***************************************************************************)
\* C3: whenever DecodeBytes succeeds, its input is exactly the canonical
\* encoding of the decoded value: Encode(out) = data.
C3_OnlyCanonicalAccepted ==
    (pc = "decoded" /\ ~Failed(derr)) =>
        /\ ~Failed(Encode(dtyp, out).err)
        /\ Encode(dtyp, out).bytes = data

(***************************************************************************)
(* C4.  Length ceiling.                                                    *)
(***************************************************************************)
\* C4: a length or count L read from a header above the ceiling M of its
\* position ends Decode with the length error that reports L and M, also
\* when M = 0; and the length error is returned for no L <= M.
C4_LengthCeiling ==
    pc = "decoded" =>
        /\ \A i \in 1..Len(rd.lens) :
              U32Gt(rd.lens[i].length, rd.lens[i].max) =>
                  /\ i = Len(rd.lens)
                  /\ derr.kind = "LengthExceeded"
                  /\ derr.a = rd.lens[i].length
                  /\ derr.b = rd.lens[i].max
        /\ derr.kind = "LengthExceeded" =>
              /\ Len(rd.lens) > 0
              /\ U32Gt(rd.lens[Len(rd.lens)].length, rd.lens[Len(rd.lens)].max)

\* a one-byte value met a byte-slice field without a declared maximum
C4_Witness ==
    /\ pc = "decoded"
    /\ dtyp = BytesNoMax
    /\ derr.kind = "LengthExceeded"
    /\ derr.a = U32(1)
    /\ derr.b = U32(0)

(***************************************************************************)
(* C5.  Bounded allocation.                                                *)
(***************************************************************************)
RECURSIVE Ceilings(_)
\* the ceilings of the positions of a struct type: 32 for a key, and the
\* declared maximum of each field
Ceilings(t) ==
    { U32(maxTagFieldNameLength) }
      \cup { parseStructTag(t[i].tag).MaxLen : i \in 1..Len(t) }
      \cup UNION { IF t[i].ft.kind = "Struct" \/ t[i].ft.elKind = "Struct"
                   THEN Ceilings(t[i].ft.elem) ELSE { } : i \in 1..Len(t) }

\* the lengths read that were within their ceiling, in reading order
PassedLens == SelectSeq(rd.lens, LAMBDA e : ~U32Gt(e.length, e.max))

\* C5: every allocation sized from the wire was made after its size was
\* compared with the ceiling of its position, and is at most that ceiling
\* and at most 2^31 - 1.
C5_BoundedAllocation ==
    pc = "decoded" =>
        /\ Len(rd.allocs) <= Len(PassedLens)
        /\ \A i \in 1..Len(rd.allocs) :
              /\ rd.allocs[i].size = PassedLens[i].length
              /\ rd.allocs[i].max = PassedLens[i].max
              /\ ~U32Gt(rd.allocs[i].size, rd.allocs[i].max)
              /\ ~U32Gt(rd.allocs[i].size, MaxInt32)
              /\ rd.allocs[i].max \in Ceilings(dtyp)

\* a count one above the maximum of a slice of records was refused after
\* the key's buffer had been allocated
C5_Witness ==
    /\ pc = "decoded"
    /\ dtyp = Kids
    /\ derr.kind = "LengthExceeded"
    /\ derr.a = U32(3)
    /\ Len(rd.allocs) = 1

(***************************************************************************)
(* C6.  Truncation.                                                        *)
(***************************************************************************)
\* a proper prefix of an encoding was decoded into the record's type
Truncated == pc = "decoded" /\ dtyp = typ /\ IsProperPrefix(data, enc.bytes)

\* C6, as claimed: every proper prefix of the encoding of a record that
\* encodes successfully is refused with the buffer-too-short error.
C6_TruncatedAnyRecord == Truncated => derr.kind = "BufTooShort"

\* C6, amended: no proper prefix of an encoding decodes; it is refused with
\* the buffer-too-short error when the whole encoding decodes, and otherwise
\* with that error or with the error the whole encoding is refused with.
C6_TruncatedDecodable ==
    Truncated =>
        LET whole == Decode(enc.bytes, typ, ZeroValue(typ)).err
        IN  /\ Failed(derr)
            /\ ~Failed(whole) => derr.kind = "BufTooShort"
            /\ derr.kind # "BufTooShort" => derr = whole

\* the cut fell inside the byte slice of a nested record
C6_Witness ==
    /\ Truncated
    /\ typ = Parent
    /\ rec[1] = << MkSlice(Content(1)) >>
    /\ derr.kind = "BufTooShort"
    /\ Len(derr.ctx) = 2

(***************************************************************************)
(* C7.  Exact arity of fixed arrays.                                       *)
(***************************************************************************)
\* struct types whose one field, with wire name "a", is a byte array
ArrayTargets == { ArrayWithin, ArrayOverMax, ArrayNoMax, EmptyArray }

\* the input up to and including the tag of the value of a one-field map
\* with key "a" whose value is a byte string
BytesFieldPreamble ==
    << PackMapID, 0, 0, 0, 1, PackStringID, 0, 0, 0, 1, 97, PackBytesID >>

\* Decode into a one-field array type met a byte string value
ReachedArray ==
    /\ pc = "decoded"
    /\ dtyp \in ArrayTargets
    /\ Len(data) >= 16
    /\ SubSeq(data, 1, 12) = BytesFieldPreamble

\* the length the wire declares for that byte string
WireLength == Uint32(SubSeq(data, 13, 16))

\* C7: a wire byte string of length L decoded into an array field of size
\* N # L fails and leaves the field as it was; with L = N, N within the
\* declared maximum and the bytes present, the array is the wire bytes.
C7_ExactArrayLength ==
    ReachedArray =>
        LET N == dtyp[1].ft.len
            M == parseStructTag(dtyp[1].tag).MaxLen
        IN  /\ WireLength # U32(N) =>
                  (Failed(derr) /\ out = tgt)
            /\ (WireLength = U32(N) /\ ~U32Gt(U32(N), M) /\ Len(data) >= 16 + N) =>
                  (~Failed(derr) /\ out = << SubSeq(data, 17, 16 + N) >>)

\* a wire byte string of 3 bytes, within the maximum, met an array of 2
C7_Witness ==
    /\ ReachedArray
    /\ dtyp = ArrayWithin
    /\ data = enc.bytes
    /\ WireLength = U32(3)
    /\ derr.kind = "ArrayLength"

(***************************************************************************)
(* C8.  Definition errors first.                                           *)
(***************************************************************************)
DefinitionErrors ==
    { "NoTag", "NameTooLong", "DuplicateKey", "NoFields",
      "UnsupportedArray", "UnsupportedSlice", "UnsupportedKind" }

RECURSIVE Malformed(_)
\* t, or a struct type nested in it, has no field, a field without a wire
\* name, a wire name above 32 bytes, a wire name used twice or a field of
\* an unsupported kind
Malformed(t) ==
    \/ Len(t) = 0
    \/ \E i \in 1..Len(t) :
          \/ ~t[i].tag.match
          \/ Len(t[i].tag.name) > maxTagFieldNameLength
          \/ \E j \in 1..Len(t) :
                j # i /\ t[j].tag.match /\ t[j].tag.name = t[i].tag.name
          \/ ~SupportedKind(t[i].ft)
          \/ /\ (t[i].ft.kind = "Struct" \/ t[i].ft.elKind = "Struct")
             /\ Malformed(t[i].ft.elem)

\* C8: Encode and Decode of a malformed record type fail with the
\* definition error, Decode before it consumes a byte of its input.
C8_DefinitionErrorsFirst ==
    /\ (pc # "start" /\ Malformed(typ)) => enc.err.kind \in DefinitionErrors
    /\ (pc = "decoded" /\ Malformed(dtyp)) =>
          (derr.kind \in DefinitionErrors /\ rd.pos = 0)

(***************************************************************************)
(* C9.  Wire-name length limit.                                            *)
(***************************************************************************)
\* C9: a record type with a wire name above 32 bytes fails to resolve with
\* the name-too-long error, with or without a declared maximum, so Encode
\* emits no key above 32 bytes.
C9_NameTooLong ==
    (pc # "start"
       /\ \E i \in 1..Len(typ) :
             typ[i].tag.match /\ Len(typ[i].tag.name) > maxTagFieldNameLength)
    => (sortStructFields(typ).err.kind = "NameTooLong"
          /\ enc.err.kind = "NameTooLong")

(***************************************************************************)
(* C10.  A field without a declared maximum.                               *)
(***************************************************************************)
\* t is well formed, and its one field is variable-length with a tag that
\* declares no maximum
LacksMaximum(t) ==
    /\ Len(t) = 1
    /\ ~Malformed(t)
    /\ t[1].tag.maxDigits = << >>
    /\ t[1].ft.kind \in { "Slice", "Array", "String" }

\* the length or element count of the value of a variable-length field
ValueLength(ft, fv) == IF ft.kind = "Slice" THEN Len(fv.s) ELSE Len(fv)

\* C10, as claimed: Encode and Decode of a type with a variable-length
\* field that declares no maximum fail with a definition error.
C10_MissingMaxRefused ==
    /\ (pc # "start" /\ LacksMaximum(typ)) => enc.err.kind \in DefinitionErrors
    /\ (pc = "decoded" /\ LacksMaximum(dtyp)) => derr.kind \in DefinitionErrors

\* C10, amended: a missing maximum is no definition error but a maximum of
\* 0: Encode succeeds whatever the value, and Decode of the result fails,
\* at run time and with the length error reporting the length and max 0,
\* exactly when the value's length is not zero.
C10_MissingMaxIsZero ==
    /\ (pc = "encoded" /\ LacksMaximum(typ)) =>
          (~Failed(enc.err) /\ parseStructTag(typ[1].tag).MaxLen = U32(0))
    /\ (RoundTrip /\ LacksMaximum(typ)) =>
          IF ValueLength(typ[1].ft, rec[1]) = 0
          THEN ~Failed(derr)
          ELSE /\ derr.kind = "LengthExceeded"
               /\ derr.a = U32(ValueLength(typ[1].ft, rec[1]))
               /\ derr.b = U32(0)

\* a string of 2 bytes was encoded, and refused on the way back
C10_Witness ==
    /\ RoundTrip
    /\ typ = StringNoMax
    /\ rec = << Content(2) >>
    /\ derr.kind = "LengthExceeded"

(***************************************************************************)
(* C11.  Duplicate wire names.                                             *)
(***************************************************************************)
\* the tag of field i of t parses, to a wire name
TagParses(t, i) == ~Failed(parseStructTag(t[i].tag).err)

\* two fields of t have tags that parse to the same wire name
SharesWireName(t) ==
    \E i \in 1..Len(t) : \E j \in 1..Len(t) :
        /\ i < j
        /\ TagParses(t, i)
        /\ TagParses(t, j)
        /\ parseStructTag(t[i].tag).FieldName = parseStructTag(t[j].tag).FieldName

\* C11, as claimed: Encode of any value of a record type in which two
\* fields resolve to the same wire name fails with the duplicate-key error
\* and returns no bytes, wherever the two fields are declared.
C11_DuplicateAlwaysReported ==
    (pc # "start" /\ SharesWireName(typ)) =>
        (enc.err.kind = "DuplicateKey" /\ enc.bytes = << >>)

\* C11, amended: Encode of any value of such a type fails and returns no
\* bytes; the error is the duplicate-key error when the tag of every field
\* of the type parses, wherever the two fields are declared, and otherwise
\* the error of the first tag in declaration order that does not parse.
C11_DuplicateAfterTags ==
    (pc = "encoded" /\ SharesWireName(typ)) =>
        /\ Failed(enc.err)
        /\ enc.bytes = << >>
        /\ IF \A i \in 1..Len(typ) : TagParses(typ, i)
           THEN enc.err.kind = "DuplicateKey"
           ELSE \E i \in 1..Len(typ) :
                  /\ ~TagParses(typ, i)
                  /\ \A j \in 1..(i - 1) : TagParses(typ, j)
                  /\ enc.err = parseStructTag(typ[i].tag).err

\* the first and the last of three fields share a wire name, and a record
\* with content in between was refused
C11_Witness ==
    /\ pc = "encoded"
    /\ typ = DupApart
    /\ rec[2] = Content(2)
    /\ enc.err.kind = "DuplicateKey"
    /\ enc.bytes = << >>

(***************************************************************************)
(* C12.  Exact map arity.                                                  *)
(***************************************************************************)
\* the input holds a map header at bytes from + 1 .. from + 5 whose entry
\* count is not n
WrongCountAt(from, n) ==
    /\ Len(data) >= from + 5
    /\ data[from + 1] = PackMapID
    /\ Uint32(SubSeq(data, from + 2, from + 5)) # U32(n)

\* the input agrees with the encoding of the record on its first n bytes,
\* and is decoded into a struct of the record's type
SameUpTo(n) ==
    /\ pc = "decoded"
    /\ dtyp = typ
    /\ ~Failed(enc.err)
    /\ Len(enc.bytes) >= n
    /\ Len(data) >= n
    /\ SubSeq(data, 1, n) = SubSeq(enc.bytes, 1, n)

\* the size of an encoded Elem, and where the map header of element e of
\* the slice of a Kids record begins: after the record's header, the key
\* "a", the array header and e - 1 elements
ElemSize == 5 + 6 + 9
KidsElemAt(e) == 5 + 6 + 5 + (e - 1) * ElemSize

\* where the map header of the Inner of a Parent record begins: after the
\* record's header, the entry of "a" and the key "c"
ParentInnerAt == 5 + 6 + 9 + 6

\* C12: a map header whose entry count differs from the field count N of
\* the struct it is decoded into makes Decode fail with the map-size error
\* right after the header, whatever follows, and no field of that struct is
\* assigned: at top level the target is as before the call, in a nested
\* struct the nested struct is (the fields decoded before it are set), in
\* a slice element the slice is not assigned.
C12_ExactMapArity ==
    /\ (pc = "decoded" /\ WrongCountAt(0, Len(dtyp))) =>
          /\ Failed(derr)
          /\ Len(dtyp) > 0 =>
                (derr.kind = "WrongMapSize" /\ derr.ctx = << >> /\ rd.pos = 5)
          /\ out = tgt
    /\ (SameUpTo(ParentInnerAt) /\ typ = Parent /\ WrongCountAt(ParentInnerAt, 1)) =>
          /\ derr.kind = "WrongMapSize"
          /\ derr.ctx = << nC >>
          /\ rd.pos = ParentInnerAt + 5
          /\ out[1] = tgt[1]
          /\ out[2] = rec[2]
    /\ \A e \in 1..MaxElems :
          (SameUpTo(KidsElemAt(e)) /\ typ = Kids /\ Len(rec[1].s) >= e
             /\ Len(rec[1].s) <= 2 /\ WrongCountAt(KidsElemAt(e), 1)) =>
              /\ derr.kind = "WrongMapSize"
              /\ derr.ctx = << nA >>
              /\ rd.pos = KidsElemAt(e) + 5
              /\ out = tgt

\* the second element of a slice of records declared two entries, and the
\* target, which held a record, was left as it was
C12_Witness ==
    /\ SameUpTo(KidsElemAt(2))
    /\ typ = Kids
    /\ Len(rec[1].s) = 2
    /\ WrongCountAt(KidsElemAt(2), 1)
    /\ data[KidsElemAt(2) + 5] = 2
    /\ tgt = rec
    /\ derr.kind = "WrongMapSize"
    /\ out = tgt

(***************************************************************************)
(* C13.  Field names and their order.                                      *)
(***************************************************************************)
\* the keys of a PackMap in wire order
Keys(pm) == [k \in 1..Len(pm.Elements) |-> pm.Elements[k].Key]

\* the wire names of a struct type in canonical order (empty when the type
\* does not resolve)
ExpectedNames(t) ==
    [k \in 1..Len(sortStructFields(t).fields) |->
        sortStructFields(t).fields[k].parsedStructTag.FieldName]

\* the first position at which the keys differ from the names
FirstMismatch(keys, names) ==
    CHOOSE m \in 1..Len(keys) :
        /\ keys[m] # names[m]
        /\ \A j \in 1..(m - 1) : keys[j] = names[j]

\* C13: Decode accepts a map only if its keys are exactly the wire names
\* of the target type in ascending byte-wise order; a map of the record
\* with a permuted, repeated or renamed key decoded into the record's type
\* is refused at the first such key, with the length error against 32
\* when the key is longer than 32 bytes and with the field-name error
\* otherwise (the values before it being within their ceilings).
C13_KeysMatchNames ==
    (pc = "decoded" /\ sent # NoMap) =>
        /\ ~Failed(derr) => Keys(sent) = ExpectedNames(dtyp)
        /\ (dtyp = typ /\ WithinCeilings(typ, rec)
              /\ Keys(sent) # ExpectedNames(typ)) =>
              LET key == Keys(sent)[FirstMismatch(Keys(sent), ExpectedNames(typ))]
              IN  /\ derr.ctx = << >>
                  /\ IF Len(key) > maxTagFieldNameLength
                     THEN /\ derr.kind = "LengthExceeded"
                          /\ derr.a = U32(Len(key))
                          /\ derr.b = U32(maxTagFieldNameLength)
                     ELSE derr.kind = "UnexpectedFieldName"

\* the entries of a three-field record arrived with the last two swapped,
\* and were refused after the first had been decoded
C13_Witness ==
    /\ pc = "decoded"
    /\ typ = Scalars
    /\ dtyp = Scalars
    /\ tgt = ZeroValue(Scalars)
    /\ rec[3] = MkSlice(Content(2))
    /\ sent # NoMap
    /\ Keys(sent) = << nB, nC, nBa >>
    /\ derr.kind = "UnexpectedFieldName"
    /\ out[3] = rec[3]

(***************************************************************************)
(* C14.  Encoder overflow.                                                 *)
(***************************************************************************)
\* C14: every length and count field Encode writes equals the actual count,
\* a failure of Encode on a record of supported kinds is the overflow
\* error, and Encode fails whenever a count or the size of the buffer it
\* would return does not fit in 32 unsigned bits.
C14_OverflowDetected ==
    pc = "encoded" =>
        /\ \A i \in 1..Len(enc.fields) :
              enc.fields[i].written = enc.fields[i].actual
        /\ Failed(enc.err) => enc.err = ErrOverflow
        /\ ~Failed(enc.err) => ~BigGt(enc.size, MaxUint32Big)

(***************************************************************************)
(* C15.  Bounded reads.                                                    *)
(***************************************************************************)
RECURSIVE ReadBound(_)
RECURSIVE ReadBoundNamed(_)
RECURSIVE Entries(_, _)
RECURSIVE NamedEntries(_, _, _)

\* t[i] holds structs: its type is a struct or a slice of structs
HoldsStructs(ft) ==
    ft.kind = "Struct" \/ (ft.kind = "Slice" /\ ft.elKind = "Struct")

\* the most bytes the value of a field of type ft with maximum M takes from
\* the stream, elemBound bounding one struct it holds
ValueBound(ft, M, elemBound) ==
    CASE ft.kind = "Uint64" -> 9
      [] ft.kind = "String" -> 5 + M
      [] ft.kind \in { "Slice", "Array" } /\ ft.elKind = "Uint8" -> 5 + M
      [] ft.kind = "Slice" /\ ft.elKind = "Struct" -> 5 + M * elemBound
      [] ft.kind = "Struct" -> elemBound
      [] OTHER -> 0

\* the sum over the first n fields of t of a key of 32 bytes and the value
Entries(t, n) ==
    IF n = 0 THEN 0
    ELSE Entries(t, n - 1) + 5 + maxTagFieldNameLength
           + ValueBound(t[n].ft, U32ToInt(parseStructTag(t[n].tag).MaxLen),
                        IF HoldsStructs(t[n].ft) THEN ReadBound(t[n].ft.elem)
                        ELSE 0)

\* the bound B of a struct type, from its field kinds and declared maxima
\* only: the map header, and for every field a key of 32 bytes and the
\* value
ReadBound(t) == IF Len(t) = 0 THEN 0 ELSE 5 + Entries(t, Len(t))

\* the smaller of two numbers
Min2(a, b) == IF a <= b THEN a ELSE b

\* the bytes of the first n entries, in canonical order, of a struct of
\* type t whose keys are the wire names (no key above 32 bytes is read)
NamedEntries(t, fields, n) ==
    IF n = 0 THEN 0
    ELSE NamedEntries(t, fields, n - 1)
           + 5 + Min2(Len(fields[n].parsedStructTag.FieldName),
                      maxTagFieldNameLength)
           + ValueBound(t[fields[n].offset].ft,
                        U32ToInt(fields[n].parsedStructTag.MaxLen),
                        IF HoldsStructs(t[fields[n].offset].ft)
                        THEN ReadBoundNamed(t[fields[n].offset].ft.elem)
                        ELSE 0)

\* the larger of two numbers, and the largest of a nonempty set
Max2(a, b) == IF a >= b THEN a ELSE b
MaxOf(S) == CHOOSE x \in S : \A y \in S : y <= x

\* a sharper bound, which also looks at the wire names: nothing of a struct
\* without fields, the map header of a type that does not resolve, and
\* otherwise the header, some entries under their names and then either
\* the next entry or a key of 32 bytes that is not the name
ReadBoundNamed(t) ==
    IF Len(t) = 0 THEN 0
    ELSE LET sf == sortStructFields(t)
         IN  IF Failed(sf.err) THEN 5
             ELSE 5 + MaxOf({ Max2(NamedEntries(t, sf.fields, k),
                                   NamedEntries(t, sf.fields, k - 1)
                                     + 5 + maxTagFieldNameLength) :
                              k \in 1..Len(t) })

\* the two bounds of every type of the catalog
ReadBounds == [t \in Types |-> ReadBound(t)]
ReadBoundsNamed == [t \in Types |-> ReadBoundNamed(t)]

\* C15: Decode returns having read at most B bytes, B the bound computed
\* from the field kinds and declared maxima of the target type, however
\* long the input is and whatever it holds; it even stays within the
\* sharper bound that knows the wire names.
C15_BoundedReads ==
    pc = "decoded" =>
        /\ rd.pos <= ReadBoundsNamed[dtyp]
        /\ ReadBoundsNamed[dtyp] <= ReadBounds[dtyp]

\* a record with a wire name of 32 bytes was followed by more bytes: Decode
\* read up to the bound and left the rest
C15_Witness ==
    /\ pc = "decoded"
    /\ dtyp = NameAtLimit
    /\ ~Failed(derr)
    /\ rd.pos = ReadBound(NameAtLimit)
    /\ Len(data) > rd.pos

(***************************************************************************)
(* C16.  Exact consumption across calls.                                   *)
(***************************************************************************)
\* where in the input the last call of Decode began to read
ReadFrom == IF pc = "second" THEN Len(enc.bytes) ELSE 0

\* a call of Decode has returned
Returned == pc \in { "decoded", "first", "second" }

\* C16, as claimed: for any two records that encode, two calls of Decode
\* on a reader holding both encodings yield the first and then the second
\* record and leave the reader empty.
C16_StreamAnyRecords ==
    /\ pc = "first" => (~Failed(derr) /\ out = rec)
    /\ pc = "second" => (~Failed(derr) /\ out = rec2 /\ rd.pos = Len(data))

\* C16, amended: a call of Decode that succeeds has consumed exactly the
\* bytes of Encode(out), whatever followed them and whatever the target
\* held; and for two records whose lengths and counts are within their
\* declared maxima, two calls on a reader holding both encodings yield the
\* first and then the second record, nil slices as empty ones, and leave
\* the reader empty.
C16_ExactConsumption ==
    /\ (Returned /\ ~Failed(derr)) =>
          /\ ~Failed(Encode(dtyp, out).err)
          /\ rd.pos <= Len(data)
          /\ Encode(dtyp, out).bytes = SubSeq(data, ReadFrom + 1, rd.pos)
    /\ (pc = "first" /\ WithinCeilings(typ, rec)) =>
          /\ ~Failed(derr)
          /\ out = NilAsEmpty(typ, rec)
          /\ rd.pos = Len(enc.bytes)
    /\ (pc = "second" /\ WithinCeilings(typ2, rec2)) =>
          /\ ~Failed(derr)
          /\ out = NilAsEmpty(typ2, rec2)
          /\ rd.pos = Len(data)

\* two records of one type were decoded from one reader into one target
C16_Witness ==
    /\ pc = "second"
    /\ typ = Scalars
    /\ typ2 = Scalars
    /\ rec # rec2
    /\ tgt = rec
    /\ ~Failed(derr)
    /\ out = rec2
    /\ rd.pos = Len(data)

(***************************************************************************)
(* C17.  The target after a failed Decode.                                 *)
(***************************************************************************)
RECURSIVE EntriesBytes(_, _, _, _)
\* the serialization of the first n entries, in canonical order, of the
\* struct o of type t: [ok, bytes], ok telling that every one of these
\* fields is of a supported kind
EntriesBytes(t, o, fields, n) ==
    IF n = 0 THEN [ok |-> TRUE, bytes |-> << >>]
    ELSE LET before == EntriesBytes(t, o, fields, n - 1)
             pv == FieldToPackValue(t[fields[n].offset].ft, o[fields[n].offset])
             key == PackStringEncode([pv |-> "String",
                                      String |-> fields[n].parsedStructTag.FieldName])
         IN  IF ~before.ok \/ Failed(pv.err) \/ Failed(PackValueEncode(pv.pv).err)
             THEN [ok |-> FALSE, bytes |-> << >>]
             ELSE [ok |-> TRUE,
                   bytes |-> before.bytes \o key.bytes \o PackValueEncode(pv.pv).bytes]

\* the input holds bytes b from position from + 1 on
HoldsAt(from, b) ==
    /\ Len(data) >= from + Len(b)
    /\ SubSeq(data, from + 1, from + Len(b)) = b

\* Decode got past the map header at from + 1 .. from + 5 into the fields
\* of a struct of type t
IntoFields(t, from) ==
    /\ Len(t) > 0
    /\ HoldsAt(from, << PackMapID >> \o PutUint32(U32(Len(t))))
    /\ ~Failed(sortStructFields(t).err)

\* the positions, in canonical order, of the field Decode may have failed
\* on: the field the error names as the one being decoded, and any field
\* when the error names none (it arose before a value was being decoded)
FailedOn(fields, ctx) ==
    IF ctx = << >> THEN 1..Len(fields)
    ELSE { k \in 1..Len(fields) : fields[k].parsedStructTag.FieldName = ctx[1] }

RECURSIVE PartlyDecoded(_, _, _, _, _)
\* o is what a decodeStruct that began to read at from + 1 and failed with
\* an error of context ctx may have made of a struct g of type t: g itself
\* when it did not get to the fields, and otherwise, k being the field it
\* failed on, the fields after k are as in g, field k is as in g unless it
\* is a struct, which is itself partly decoded, and the fields before k
\* are what the input holds for them
PartlyDecoded(t, o, g, from, ctx) ==
    IF ~IntoFields(t, from) THEN o = g
    ELSE LET fields == sortStructFields(t).fields
         IN  \E k \in FailedOn(fields, ctx) :
               /\ \A j \in (k + 1)..Len(t) :
                     o[fields[j].offset] = g[fields[j].offset]
               /\ t[fields[k].offset].ft.kind # "Struct" =>
                     o[fields[k].offset] = g[fields[k].offset]
               /\ EntriesBytes(t, o, fields, k - 1).ok
               /\ HoldsAt(from + 5, EntriesBytes(t, o, fields, k - 1).bytes)
               /\ t[fields[k].offset].ft.kind = "Struct" =>
                     \/ (ctx = << >> /\ o[fields[k].offset] = g[fields[k].offset])
                     \/ PartlyDecoded(t[fields[k].offset].ft.elem,
                                      o[fields[k].offset], g[fields[k].offset],
                                      from + 5
                                        + Len(EntriesBytes(t, o, fields, k - 1).bytes)
                                        + 5 + Len(fields[k].parsedStructTag.FieldName),
                                      IF ctx = << >> THEN << >> ELSE Tail(ctx))

\* C17: a Decode that fails leaves the target partly decoded: untouched
\* when it failed before the first field, and otherwise, for the field k
\* it failed on (the one its error names), with every field sorted after k
\* as before the call, field k as before the call if it is a uint64,
\* string, byte slice, byte array or slice of records (a struct field k is
\* itself partly decoded), and every field sorted before k holding the
\* value the input has for it.
C17_PartialTarget ==
    (Returned /\ Failed(derr)) =>
        PartlyDecoded(dtyp, out, tgt, ReadFrom, derr.ctx)

\* the second of three fields was refused for its length: the first holds
\* the wire value, the other two what the target held before the call
C17_Witness ==
    /\ pc = "decoded"
    /\ dtyp = Scalars
    /\ tgt = rec
    /\ derr.kind = "LengthExceeded"
    /\ derr.ctx = << nBa >>
    /\ out[3] # tgt[3]
    /\ out[2] = tgt[2]
    /\ out[1] = tgt[1]
    /\ out[1] # << 0, 0, 0, 0 >>

====
